---- MODULE Spec2Model ----
(***************************************************************************)
(* A model of source/speechXml.py: the XmlBalancer, the SsmlConverter      *)
(* (speech sequence -> SSML) and the SsmlParser (SSML -> speech sequence). *)
(*                                                                         *)
(* Representation.                                                         *)
(*  - A Python str of text is a sequence of characters; a character is a   *)
(*    one-character TLA+ string, except the control character U+0001 and   *)
(*    the replacement character U+FFFD, which are written by name.         *)
(*  - An attribute value is a record [k, n, s]: k = "none" is None,        *)
(*    k = "str" the string whose pieces are s, k = "int" the digits of n,  *)
(*    k = "pct" the digits of n followed by "%", k = "ms" the digits of n  *)
(*    followed by "ms".                                                    *)
(*  - The markup is a sequence of tokens [k, tag, attrs, txt]: an opening  *)
(*    tag, a closing tag, an empty-element tag or a run of character data  *)
(*    (its characters as written in the markup: "&lt;" is one of them).    *)
(*    The list XmlBalancer._out holds one token for each call of _openTag, *)
(*    _closeTag and _escapeXml; "".join(_out) is Join(out).                *)
(*  - A speech sequence item is a record [type, num, val, txt]; type is    *)
(*    the Python class name ("str" for text).  A multiplier is held in     *)
(*    thousandths (1.2 is 1200).                                           *)
(***************************************************************************)
EXTENDS Integers, Sequences, FiniteSets, TLC

VARIABLES
    pc,              \* where the running call is: "start", "run", "done"
    bal,             \* the XmlBalancer instance (its fields)
    commands,        \* the balancer commands generateXml has consumed
    speechSequence,  \* the speech sequence given to convertToXml
    xml,             \* the markup given to convertFromXml, as consumed by expat
    parser,          \* the SsmlParser instance and its expat parser
    result           \* what the call returned

vars == <<pc, bal, commands, speechSequence, xml, parser, result>>

----------------------------------------------------------------------------
(* Bounds of the model *)

\* The longest sequence of balancer commands given to generateXml.
MaxCommands == 4

\* The longest speech sequence convertToXml translates.
MaxSpeech == 4

\* The most tokens (tags and runs of character data) of a document given to
\* convertFromXml.
MaxTokens == 6

\* The most callbacks one parser creates in all its calls of convertFromXml.
MaxLambdas == 8

----------------------------------------------------------------------------
(* Attribute values and text *)

VNone == [k |-> "none", n |-> 0, s |-> <<>>]
VStr(s) == [k |-> "str", n |-> 0, s |-> s]
VInt(n) == [k |-> "int", n |-> n, s |-> <<>>]
VPct(n) == [k |-> "pct", n |-> n, s |-> <<>>]
VMs(n) == [k |-> "ms", n |-> n, s |-> <<>>]

\* textUtils.REPLACEMENT_CHAR
REPLACEMENT_CHAR == "U+FFFD"

\* The characters RE_INVALID_XML_CHARS matches, among those of the model.
InvalidXmlChars == {"U+0001"}

\* XML_ESCAPES, then RE_INVALID_XML_CHARS.sub, on one character.
EscapeChar(c) ==
    CASE c = "<" -> "&lt;"
      [] c = ">" -> "&gt;"
      [] c = "&" -> "&amp;"
      [] c = "\"" -> "&quot;"
      [] c \in InvalidXmlChars -> REPLACEMENT_CHAR
      [] OTHER -> c

\* _escapeXml(text)
EscapeXml(text) ==
    IF text = <<>> THEN <<>> ELSE [i \in 1..Len(text) |-> EscapeChar(text[i])]

\* str(val): None is written "None".
Str(val) == IF val.k = "none" THEN VStr(<<"None">>) ELSE val

\* _escapeXml(str(val)) for an attribute value.
EscapeVal(val) == [Str(val) EXCEPT !.s = EscapeXml(@)]

----------------------------------------------------------------------------
(* Markup tokens *)

Attr(a, v) == [attr |-> a, val |-> v]

TokOpen(tag, attrs) == [k |-> "open", tag |-> tag, attrs |-> attrs, txt |-> <<>>]
TokEmpty(tag, attrs) == [k |-> "empty", tag |-> tag, attrs |-> attrs, txt |-> <<>>]
TokClose(tag) == [k |-> "close", tag |-> tag, attrs |-> <<>>, txt |-> <<>>]
TokText(txt) == [k |-> "text", tag |-> "", attrs |-> <<>>, txt |-> txt]

\* "".join(self._out): adjacent runs of character data are one run, and an
\* empty string leaves no trace.
RECURSIVE Join(_)
Join(out) ==
    IF out = <<>> THEN <<>>
    ELSE LET rest == Join(Tail(out))
             t == Head(out)
         IN IF t.k # "text" THEN <<t>> \o rest
            ELSE IF t.txt = <<>> THEN rest
            ELSE IF rest # <<>> /\ Head(rest).k = "text"
                 THEN <<TokText(t.txt \o Head(rest).txt)>> \o Tail(rest)
                 ELSE <<t>> \o rest

RECURSIVE Reverse(_)
Reverse(s) == IF s = <<>> THEN <<>> ELSE Append(Reverse(Tail(s)), Head(s))

----------------------------------------------------------------------------
(* XmlBalancer *)

\* The balancer commands (namedtuples); text is a command of kind "str".
\* A tag of "" stands for None, content <<>> for None or "".
CmdText(txt) == [cmd |-> "str", tag |-> "", attr |-> "", val |-> VNone, attrs |-> <<>>, content |-> txt]
EncloseAllCommand(tag, attrs) == [cmd |-> "EncloseAll", tag |-> tag, attr |-> "", val |-> VNone, attrs |-> attrs, content |-> <<>>]
SetAttrCommand(tag, attr, val) == [cmd |-> "SetAttr", tag |-> tag, attr |-> attr, val |-> val, attrs |-> <<>>, content |-> <<>>]
DelAttrCommand(tag, attr) == [cmd |-> "DelAttr", tag |-> tag, attr |-> attr, val |-> VNone, attrs |-> <<>>, content |-> <<>>]
EncloseTextCommand(tag, attrs) == [cmd |-> "EncloseText", tag |-> tag, attr |-> "", val |-> VNone, attrs |-> attrs, content |-> <<>>]
StopEnclosingTextCommand == [cmd |-> "StopEnclosingText", tag |-> "", attr |-> "", val |-> VNone, attrs |-> <<>>, content |-> <<>>]
StandAloneTagCommand(tag, attrs, content) == [cmd |-> "StandAloneTag", tag |-> tag, attr |-> "", val |-> VNone, attrs |-> attrs, content |-> content]

\* XmlBalancer.__init__
NewBalancer ==
    [out |-> <<>>,
     enclosingAllTags |-> <<>>,
     tagsChanged |-> FALSE,
     openTags |-> <<>>,
     tags |-> <<>>,
     tagEnclosingText |-> [tag |-> "", attrs |-> <<>>]]

\* The attribute values as _openTag writes them.
WrittenAttrs(attrs) ==
    IF attrs = <<>> THEN <<>>
    ELSE [i \in 1..Len(attrs) |-> Attr(attrs[i].attr, EscapeVal(attrs[i].val))]

\* _openTag(tag, attrs, empty)
OpenTag(b, tag, attrs, empty) ==
    [b EXCEPT !.out = Append(@, IF empty THEN TokEmpty(tag, WrittenAttrs(attrs))
                                         ELSE TokOpen(tag, WrittenAttrs(attrs)))]

\* _closeTag(tag)
CloseTag(b, tag) == [b EXCEPT !.out = Append(@, TokClose(tag))]

\* The mutant of Text that appends the text as it is given.
TextUnescaped(b, text) ==
    LET tag == b.tagEnclosingText.tag
        attrs == b.tagEnclosingText.attrs
        b1 == IF tag # "" THEN OpenTag(b, tag, attrs, FALSE) ELSE b
        b2 == [b1 EXCEPT !.out = Append(@, TokText(text))]
    IN IF tag # "" THEN CloseTag(b2, tag) ELSE b2

\* The mutant of Text that forgets the tag enclosing the text.
TextNeverEnclosed(b, text) == [b EXCEPT !.out = Append(@, TokText(EscapeXml(text)))]

\* _text(text)
Text(b, text) ==
    LET tag == b.tagEnclosingText.tag
        attrs == b.tagEnclosingText.attrs
        b1 == IF tag # "" THEN OpenTag(b, tag, attrs, FALSE) ELSE b
        b2 == [b1 EXCEPT !.out = Append(@, TokText(EscapeXml(text)))]
    IN IF tag # "" THEN CloseTag(b2, tag) ELSE b2

\* Ordered-dictionary helpers: a dictionary is a sequence of entries.
TagIndex(tags, tag) ==
    IF \E i \in DOMAIN tags : tags[i].tag = tag
    THEN CHOOSE i \in DOMAIN tags : tags[i].tag = tag
    ELSE 0

AttrIndex(attrs, attr) ==
    IF \E i \in DOMAIN attrs : attrs[i].attr = attr
    THEN CHOOSE i \in DOMAIN attrs : attrs[i].attr = attr
    ELSE 0

\* attrs.get(attr): None when the attribute is absent.
AttrGet(attrs, attr) ==
    IF AttrIndex(attrs, attr) = 0 THEN VNone ELSE attrs[AttrIndex(attrs, attr)].val

\* self._tags.get(tag): <<>> stands for both None and an empty dictionary,
\* which "if not attrs" does not tell apart.
TagsGet(tags, tag) ==
    IF TagIndex(tags, tag) = 0 THEN <<>> ELSE tags[TagIndex(tags, tag)].attrs

RemoveAt(s, i) == SubSeq(s, 1, i - 1) \o SubSeq(s, i + 1, Len(s))

\* The mutant of SetAttr that marks the tags changed whatever the value.
SetAttrAlwaysDirty(b, tag, attr, val) ==
    LET ti == TagIndex(b.tags, tag)
        tags1 == IF ti = 0
                 THEN Append(b.tags, [tag |-> tag, attrs |-> <<>>])
                 ELSE b.tags
        tj == TagIndex(tags1, tag)
        attrs == tags1[tj].attrs
        ai == AttrIndex(attrs, attr)
        attrs1 == IF ai = 0 THEN Append(attrs, Attr(attr, val))
                  ELSE [attrs EXCEPT ![ai] = Attr(attr, val)]
    IN [b EXCEPT !.tags = [tags1 EXCEPT ![tj].attrs = attrs1], !.tagsChanged = TRUE]

\* _setAttr(tag, attr, val)
SetAttr(b, tag, attr, val) ==
    LET ti == TagIndex(b.tags, tag)
        \* attrs = self._tags[tag] = OrderedDict(): a new entry at the end when
        \* the tag is absent; an entry with no attribute keeps its place
        tags1 == IF ti = 0
                 THEN Append(b.tags, [tag |-> tag, attrs |-> <<>>])
                 ELSE b.tags
        tj == TagIndex(tags1, tag)
        attrs == tags1[tj].attrs
        ai == AttrIndex(attrs, attr)
        attrs1 == IF ai = 0 THEN Append(attrs, Attr(attr, val))
                  ELSE [attrs EXCEPT ![ai] = Attr(attr, val)]
    IN IF AttrGet(attrs, attr) # val
       THEN [b EXCEPT !.tags = [tags1 EXCEPT ![tj].attrs = attrs1], !.tagsChanged = TRUE]
       ELSE [b EXCEPT !.tags = tags1]

\* _delAttr(tag, attr)
DelAttr(b, tag, attr) ==
    LET ti == TagIndex(b.tags, tag)
        attrs == TagsGet(b.tags, tag)
        ai == AttrIndex(attrs, attr)
        attrs1 == RemoveAt(attrs, ai)
    IN IF attrs = <<>> THEN b
       ELSE IF ai = 0 THEN b
       ELSE [b EXCEPT !.tags = IF attrs1 = <<>> THEN RemoveAt(b.tags, ti)
                                ELSE [b.tags EXCEPT ![ti].attrs = attrs1],
                      !.tagsChanged = TRUE]

\* The mutant of CloseTagsReversed that closes the tags in the order they were opened.
RECURSIVE CloseTagsNotReversed(_, _)
CloseTagsNotReversed(b, tagList) ==
    IF tagList = <<>> THEN b
    ELSE CloseTagsNotReversed(CloseTag(b, Head(tagList)), Tail(tagList))

\* for tag in reversed(tagList): self._closeTag(tag)
RECURSIVE CloseTagsReversed(_, _)
CloseTagsReversed(b, tagList) ==
    IF tagList = <<>> THEN b
    ELSE CloseTagsReversed(CloseTag(b, tagList[Len(tagList)]), SubSeq(tagList, 1, Len(tagList) - 1))

\* for tag in tagList: self._closeTag(tag)
RECURSIVE CloseTagsInOrder(_, _)
CloseTagsInOrder(b, tagList) ==
    IF tagList = <<>> THEN b
    ELSE CloseTagsInOrder(CloseTag(b, Head(tagList)), Tail(tagList))

\* for tag, attrs in self._tags.items(): open the tag and push it
RECURSIVE OpenTags(_, _)
OpenTags(b, tags) ==
    IF tags = <<>> THEN b
    ELSE LET t == Head(tags)
             b1 == OpenTag(b, t.tag, t.attrs, FALSE)
         IN OpenTags([b1 EXCEPT !.openTags = Append(@, t.tag)], Tail(tags))

\* _outputTags()
OutputTags(b) ==
    IF ~b.tagsChanged THEN b
    ELSE LET b1 == CloseTagsReversed(b, b.openTags)
             b2 == [b1 EXCEPT !.openTags = <<>>]
             b3 == OpenTags(b2, b2.tags)
         IN [b3 EXCEPT !.tagsChanged = FALSE]

\* The body of generateXml's loop, for one command.
BalStep(b, c) ==
    CASE c.cmd = "str" -> Text(OutputTags(b), c.content)
      [] c.cmd = "EncloseAll" ->
           [OpenTag(b, c.tag, c.attrs, FALSE) EXCEPT !.enclosingAllTags = Append(@, c.tag)]
      [] c.cmd = "SetAttr" -> SetAttr(b, c.tag, c.attr, c.val)
      [] c.cmd = "DelAttr" -> DelAttr(b, c.tag, c.attr)
      [] c.cmd = "EncloseText" -> [b EXCEPT !.tagEnclosingText = [tag |-> c.tag, attrs |-> c.attrs]]
      [] c.cmd = "StopEnclosingText" -> [b EXCEPT !.tagEnclosingText = [tag |-> "", attrs |-> <<>>]]
      [] c.cmd = "StandAloneTag" ->
           LET b1 == OpenTag(OutputTags(b), c.tag, c.attrs, c.content = <<>>)
           IN IF c.content # <<>> THEN CloseTag(Text(b1, c.content), c.tag) ELSE b1

\* generateXml's loop over a sequence of commands.
RECURSIVE BalRun(_, _)
BalRun(b, cmds) ==
    IF cmds = <<>> THEN b ELSE BalRun(BalStep(b, Head(cmds)), Tail(cmds))

\* The end of generateXml: close any open tags, then join the output.
BalFinish(b) ==
    Join(CloseTagsInOrder(CloseTagsReversed(b, b.openTags), b.enclosingAllTags).out)

\* generateXml(commands)
GenerateXml(cmds) == BalFinish(BalRun(NewBalancer, cmds))

----------------------------------------------------------------------------
(* generateXml on any sequence of balancer commands *)

\* The inputs of the model.
BalTexts == {<<"a">>, <<"<", "U+0001">>}
BalEncloseAlls ==
    {EncloseAllCommand("speak", <<Attr("version", VStr(<<"1.0">>))>>),
     EncloseAllCommand("doc", <<>>)}
BalSetAttrs ==
    {SetAttrCommand("voice", "xml:lang", VStr(<<"fr">>)),
     SetAttrCommand("prosody", "pitch", VPct(120)),
     SetAttrCommand("prosody", "rate", VPct(150)),
     SetAttrCommand("prosody", "pitch", VNone)}
BalDelAttrs ==
    {DelAttrCommand("prosody", "pitch"),
     DelAttrCommand("prosody", "rate")}
BalEncloseTexts ==
    {EncloseTextCommand("say-as", <<Attr("interpret-as", VStr(<<"characters">>))>>)}
BalStandAloneTags ==
    {StandAloneTagCommand("break", <<Attr("time", VMs(10))>>, <<>>),
     StandAloneTagCommand("phoneme", <<Attr("ph", VStr(<<"x">>))>>, <<"t", "&">>)}

\* SsmlParser.__init__(markCallback), before any call of convertFromXml.
\* markCallback is whether a callback was given; lambdas counts the callbacks
\* (lambda objects) parseMark has created; stack, phase, pending and error are
\* the state of the expat parser of the running call.
NewParser(markCallback) ==
    [markCallback |-> markCallback,
     speechSequence |-> <<>>,
     cachedProsodyAttrs |-> <<>>,
     lambdas |-> 0,
     stack |-> <<>>,
     phase |-> "prolog",
     pending |-> FALSE,
     error |-> FALSE]

\* The parser field of the specifications that use no parser.
NoParser == NewParser(FALSE)

InitBalancer ==
    /\ pc = "run"
    /\ bal = NewBalancer
    /\ commands = <<>>
    /\ speechSequence = <<>>
    /\ xml = <<>>
    /\ parser = NoParser
    /\ result = <<>>

\* generateXml takes the next command from its input; one action for each kind.

\* isinstance(command, str)
GenText ==
    \E t \in BalTexts :
        /\ pc = "run"
        /\ Len(commands) < MaxCommands
        /\ bal' = BalStep(bal, CmdText(t))
        /\ commands' = Append(commands, CmdText(t))
        /\ UNCHANGED <<pc, speechSequence, xml, parser, result>>

\* isinstance(command, EncloseAllCommand)
GenEncloseAll ==
    \E c \in BalEncloseAlls :
        /\ pc = "run"
        /\ Len(commands) < MaxCommands
        /\ bal' = BalStep(bal, c)
        /\ commands' = Append(commands, c)
        /\ UNCHANGED <<pc, speechSequence, xml, parser, result>>

\* isinstance(command, SetAttrCommand)
GenSetAttr ==
    \E c \in BalSetAttrs :
        /\ pc = "run"
        /\ Len(commands) < MaxCommands
        /\ bal' = BalStep(bal, c)
        /\ commands' = Append(commands, c)
        /\ UNCHANGED <<pc, speechSequence, xml, parser, result>>

\* isinstance(command, DelAttrCommand)
GenDelAttr ==
    \E c \in BalDelAttrs :
        /\ pc = "run"
        /\ Len(commands) < MaxCommands
        /\ bal' = BalStep(bal, c)
        /\ commands' = Append(commands, c)
        /\ UNCHANGED <<pc, speechSequence, xml, parser, result>>

\* isinstance(command, EncloseTextCommand)
GenEncloseText ==
    \E c \in BalEncloseTexts :
        /\ pc = "run"
        /\ Len(commands) < MaxCommands
        /\ bal' = BalStep(bal, c)
        /\ commands' = Append(commands, c)
        /\ UNCHANGED <<pc, speechSequence, xml, parser, result>>

\* isinstance(command, StopEnclosingTextCommand)
GenStopEnclosingText ==
    \E c \in {StopEnclosingTextCommand} :
        /\ pc = "run"
        /\ Len(commands) < MaxCommands
        /\ bal' = BalStep(bal, c)
        /\ commands' = Append(commands, c)
        /\ UNCHANGED <<pc, speechSequence, xml, parser, result>>

\* isinstance(command, StandAloneTagCommand)
GenStandAloneTag ==
    \E c \in BalStandAloneTags :
        /\ pc = "run"
        /\ Len(commands) < MaxCommands
        /\ bal' = BalStep(bal, c)
        /\ commands' = Append(commands, c)
        /\ UNCHANGED <<pc, speechSequence, xml, parser, result>>

\* The input is exhausted: generateXml closes the open tags and returns.
GenReturn ==
    /\ pc = "run"
    /\ pc' = "done"
    /\ result' = BalFinish(bal)
    /\ UNCHANGED <<bal, commands, speechSequence, xml, parser>>

NextBalancer ==
    \/ GenText
    \/ GenEncloseAll
    \/ GenSetAttr
    \/ GenDelAttr
    \/ GenEncloseText
    \/ GenStopEnclosingText
    \/ GenStandAloneTag
    \/ GenReturn

SpecBalancer == InitBalancer /\ [][NextBalancer]_vars

----------------------------------------------------------------------------
(* Speech sequences *)

Item(type, num, val, txt) == [type |-> type, num |-> num, val |-> val, txt |-> txt]

StrItem(txt) == Item("str", 0, VNone, txt)
IndexCommand(index) == Item("IndexCommand", index, VNone, <<>>)
\* state is 1 for True and 0 for False
CharacterModeCommand(state) == Item("CharacterModeCommand", state, VNone, <<>>)
LangChangeCommand(lang) == Item("LangChangeCommand", 0, lang, <<>>)
BreakCommand(time) == Item("BreakCommand", time, VNone, <<>>)
\* multiplier in thousandths
PitchCommand(multiplier) == Item("PitchCommand", multiplier, VNone, <<>>)
RateCommand(multiplier) == Item("RateCommand", multiplier, VNone, <<>>)
VolumeCommand(multiplier) == Item("VolumeCommand", multiplier, VNone, <<>>)
PhonemeCommand(ipa, text) == Item("PhonemeCommand", 0, ipa, text)
\* num is the identity of the command's callback, a new lambda for each command
CallbackCommand(name, lambda) == Item("CallbackCommand", lambda, name, <<>>)
\* a SpeechCommand for which SsmlConverter has no convert method
BeepCommand == Item("BeepCommand", 0, VNone, <<>>)
\* an item that is neither a str nor a SpeechCommand
IntItem == Item("int", 0, VNone, <<>>)

ProsodyTypes == {"PitchCommand", "RateCommand", "VolumeCommand"}

----------------------------------------------------------------------------
(* SsmlConverter *)

\* s.replace(old, new) on the pieces of a string
ReplacePiece(s, old, new) ==
    IF s = <<>> THEN <<>> ELSE [i \in 1..Len(s) |-> IF s[i] = old THEN new ELSE s[i]]

\* toXmlLang(nvdaLang)
ToXmlLang(nvdaLang) == [nvdaLang EXCEPT !.s = ReplacePiece(@, "_", "-")]

\* toNvdaLang(xmlLang)
ToNvdaLang(xmlLang) == [xmlLang EXCEPT !.s = ReplacePiece(@, "-", "_")]

\* The language the converter of the model is built with.
DefaultNvdaLanguage == VStr(<<"en", "_", "US">>)

\* SsmlConverter.__init__: self.defaultLanguage
defaultLanguage == ToXmlLang(DefaultNvdaLanguage)

\* The multipliers m/1000, 0 <= m <= 2000, for which the double m/1000 * 100
\* lies just below the integer m/10.
FloatProductBelow == {290, 570, 580, 1130, 1140, 1150, 1160}

\* int(command.multiplier * 100), the multiplier in thousandths
IntPercent(multiplier) ==
    IF multiplier \in FloatProductBelow THEN (multiplier \div 10) - 1 ELSE multiplier \div 10

\* The mutant of ConvertProsody that writes a multiplier of 1 as "100%".
ConvertProsodyNoReset(command, attr) ==
    SetAttrCommand("prosody", attr, VPct(IntPercent(command.num)))

\* _convertProsody(command, attr)
ConvertProsody(command, attr) ==
    IF command.num = 1000
    THEN DelAttrCommand("prosody", attr)
    ELSE SetAttrCommand("prosody", attr, VPct(IntPercent(command.num)))

\* convertIndexCommand
ConvertIndexCommand(command) ==
    StandAloneTagCommand("mark", <<Attr("name", VInt(command.num))>>, <<>>)

\* convertCharacterModeCommand
ConvertCharacterModeCommand(command) ==
    IF command.num # 0
    THEN EncloseTextCommand("say-as", <<Attr("interpret-as", VStr(<<"characters">>))>>)
    ELSE StopEnclosingTextCommand

\* convertLangChangeCommand: command.lang or self.defaultLanguage
ConvertLangChangeCommand(command) ==
    LET lang == IF command.val.k = "none" \/ command.val = VStr(<<>>)
                THEN defaultLanguage ELSE command.val
    IN SetAttrCommand("voice", "xml:lang", ToXmlLang(lang))

\* convertBreakCommand
ConvertBreakCommand(command) ==
    StandAloneTagCommand("break", <<Attr("time", VMs(command.num))>>, <<>>)

\* convertPhonemeCommand
ConvertPhonemeCommand(command) ==
    StandAloneTagCommand("phoneme",
        <<Attr("alphabet", VStr(<<"ipa">>)), Attr("ph", command.val)>>, command.txt)

\* The SpeechCommand classes for which getattr(self, "convert" + name) finds a method.
ConvertMethods ==
    {"IndexCommand", "CharacterModeCommand", "LangChangeCommand", "BreakCommand",
     "PitchCommand", "RateCommand", "VolumeCommand", "PhonemeCommand"}

\* func(item)
Convert(item) ==
    CASE item.type = "IndexCommand" -> ConvertIndexCommand(item)
      [] item.type = "CharacterModeCommand" -> ConvertCharacterModeCommand(item)
      [] item.type = "LangChangeCommand" -> ConvertLangChangeCommand(item)
      [] item.type = "BreakCommand" -> ConvertBreakCommand(item)
      [] item.type = "PitchCommand" -> ConvertProsody(item, "pitch")
      [] item.type = "RateCommand" -> ConvertProsody(item, "rate")
      [] item.type = "VolumeCommand" -> ConvertProsody(item, "volume")
      [] item.type = "PhonemeCommand" -> ConvertPhonemeCommand(item)

\* The mutant of TranslateItem that skips an unsupported command and goes on.
TranslateItemContinue(item) ==
    CASE item.type = "str" -> [stop |-> FALSE, cmds |-> <<CmdText(item.txt)>>]
      [] item.type \in ConvertMethods -> [stop |-> FALSE, cmds |-> <<Convert(item)>>]
      [] OTHER -> [stop |-> FALSE, cmds |-> <<>>]

\* The body of the loop of SpeechXmlConverter.generateBalancerCommands for one
\* item: the commands it yields, and whether the generator returns.
TranslateItem(item) ==
    CASE item.type = "str" -> [stop |-> FALSE, cmds |-> <<CmdText(item.txt)>>]
      [] item.type \in ConvertMethods -> [stop |-> FALSE, cmds |-> <<Convert(item)>>]
      [] item.type \in {"CallbackCommand", "BeepCommand"} -> [stop |-> TRUE, cmds |-> <<>>]
      [] OTHER -> [stop |-> FALSE, cmds |-> <<>>]

\* SpeechXmlConverter.generateBalancerCommands(speechSequence)
RECURSIVE BaseBalancerCommands(_)
BaseBalancerCommands(seq) ==
    IF seq = <<>> THEN <<>>
    ELSE LET t == TranslateItem(Head(seq))
         IN IF t.stop THEN <<>> ELSE t.cmds \o BaseBalancerCommands(Tail(seq))

\* The command SsmlConverter.generateBalancerCommands yields first.
SpeakCommand ==
    EncloseAllCommand("speak",
        <<Attr("version", VStr(<<"1.0">>)),
          Attr("xmlns", VStr(<<"http://www.w3.org/2001/10/synthesis">>)),
          Attr("xml:lang", defaultLanguage)>>)

\* SsmlConverter.generateBalancerCommands(speechSequence)
GenerateBalancerCommands(seq) == <<SpeakCommand>> \o BaseBalancerCommands(seq)

\* convertToXml(speechSequence)
ConvertToXml(seq) == GenerateXml(GenerateBalancerCommands(seq))

----------------------------------------------------------------------------
(* SsmlParser *)

\* Equality of two speech commands (speech/commands.py): equal class and
\* equal values.  Two CallbackCommands hold different lambda objects.
CommandEq(a, b) == a = b

\* The mutant of Dedup that does not look up the latest command of the class.
DedupWithoutLookup(seq, command) ==
    LET seq1 == IF seq # <<>> /\ seq[Len(seq)].type = command.type
                THEN SubSeq(seq, 1, Len(seq) - 1) ELSE seq
    IN Append(seq1, command)

\* The mutant of Dedup that looks up the latest command of the class before
\* it removes the command before.
DedupLookupFirst(seq, command) ==
    LET seq1 == IF seq # <<>> /\ seq[Len(seq)].type = command.type
                THEN SubSeq(seq, 1, Len(seq) - 1) ELSE seq
        same == {i \in 1..Len(seq) : seq[i].type = command.type}
        prev == CHOOSE i \in same : \A j \in same : j <= i
    IN IF same # {} /\ CommandEq(seq[prev], command) THEN seq1 ELSE Append(seq1, command)

\* The mutant of Dedup that never removes the command before.
DedupWithoutPop(seq, command) ==
    LET same == {i \in 1..Len(seq) : seq[i].type = command.type}
        prev == CHOOSE i \in same : \A j \in same : j <= i
    IN IF same # {} /\ CommandEq(seq[prev], command) THEN seq ELSE Append(seq, command)

\* The body of the loop of _elementHandler for one command: the command before
\* is removed when it is of the same class, and the command is appended unless
\* the latest command of its class is equal to it.
Dedup(seq, command) ==
    LET seq1 == IF seq # <<>> /\ seq[Len(seq)].type = command.type
                THEN SubSeq(seq, 1, Len(seq) - 1) ELSE seq
        same == {i \in 1..Len(seq1) : seq1[i].type = command.type}
        prev == CHOOSE i \in same : \A j \in same : j <= i
    IN IF same # {} /\ CommandEq(seq1[prev], command) THEN seq1 ELSE Append(seq1, command)

RECURSIVE DedupAll(_, _)
DedupAll(seq, cmds) ==
    IF cmds = <<>> THEN seq ELSE DedupAll(Dedup(seq, Head(cmds)), Tail(cmds))

\* parseSayAs(attrs); open is "attrs is not None"
ParseSayAs(open, attrs) ==
    <<CharacterModeCommand(
        IF open /\ AttrGet(attrs, "interpret-as") = VStr(<<"characters">>) THEN 1 ELSE 0)>>

\* parseVoice(attrs)
ParseVoice(open, attrs) ==
    IF ~open THEN <<>>
    ELSE IF AttrIndex(attrs, "xml:lang") = 0 THEN <<>>
    ELSE <<LangChangeCommand(ToNvdaLang(AttrGet(attrs, "xml:lang")))>>

\* parseBreak(attrs): RE_TIME_MS matches the values of kind "ms"
ParseBreak(open, attrs) ==
    IF ~open \/ AttrIndex(attrs, "time") = 0 THEN <<>>
    ELSE IF AttrGet(attrs, "time").k # "ms" THEN <<>>
    ELSE <<BreakCommand(AttrGet(attrs, "time").n)>>

\* The mutant of ProsodyCommands that forgets the reset on the closing tag.
RECURSIVE ProsodyCommandsNoReset(_, _)
ProsodyCommandsNoReset(isOpenTag, attrs) ==
    IF attrs = <<>> THEN <<>>
    ELSE LET a == Head(attrs)
             rest == ProsodyCommandsNoReset(isOpenTag, Tail(attrs))
             multiplier == a.val.n * 10
         IN IF a.val.k # "pct" THEN rest
            ELSE CASE a.attr = "pitch" -> <<PitchCommand(multiplier)>> \o rest
                   [] a.attr = "volume" -> <<VolumeCommand(multiplier)>> \o rest
                   [] a.attr = "rate" -> <<RateCommand(multiplier)>> \o rest
                   [] OTHER -> rest

\* The loop of parseProsody over attrs.items(): RE_PERCENTAGE matches the
\* values of kind "pct"; float(percentage) / 100 in thousandths is n * 10.
RECURSIVE ProsodyCommands(_, _)
ProsodyCommands(isOpenTag, attrs) ==
    IF attrs = <<>> THEN <<>>
    ELSE LET a == Head(attrs)
             rest == ProsodyCommands(isOpenTag, Tail(attrs))
             multiplier == IF isOpenTag THEN a.val.n * 10 ELSE 1000
         IN IF a.val.k # "pct" THEN rest
            ELSE CASE a.attr = "pitch" -> <<PitchCommand(multiplier)>> \o rest
                   [] a.attr = "volume" -> <<VolumeCommand(multiplier)>> \o rest
                   [] a.attr = "rate" -> <<RateCommand(multiplier)>> \o rest
                   [] OTHER -> rest

\* The tags for which getattr(self, "parse" + name) finds a method.
ParseMethods == {"say-as", "voice", "break", "prosody", "speak", "mark"}

\* func(attrs) for an opening (open) or closing tag: the parser after the
\* call and the commands the generator yields.
ParseFunc(p, tagName, open, attrs) ==
    CASE tagName = "say-as" -> [p |-> p, cmds |-> ParseSayAs(open, attrs)]
      [] tagName = "voice" -> [p |-> p, cmds |-> ParseVoice(open, attrs)]
      [] tagName = "break" -> [p |-> p, cmds |-> ParseBreak(open, attrs)]
      [] tagName = "prosody" ->
           \* parseProsody: push the attributes on open, pop them on close
           IF open
           THEN [p |-> [p EXCEPT !.cachedProsodyAttrs = Append(@, attrs)],
                 cmds |-> ProsodyCommands(TRUE, attrs)]
           ELSE [p |-> [p EXCEPT !.cachedProsodyAttrs = SubSeq(@, 1, Len(@) - 1)],
                 cmds |-> ProsodyCommands(FALSE,
                              p.cachedProsodyAttrs[Len(p.cachedProsodyAttrs)])]
      [] tagName = "speak" -> [p |-> p, cmds |-> <<>>]
      [] tagName = "mark" ->
           \* parseMark
           IF ~open \/ AttrIndex(attrs, "name") = 0 THEN [p |-> p, cmds |-> <<>>]
           ELSE IF p.markCallback
           THEN [p |-> [p EXCEPT !.lambdas = @ + 1],
                 cmds |-> <<CallbackCommand(AttrGet(attrs, "name"), p.lambdas + 1)>>]
           ELSE [p |-> p, cmds |-> <<>>]

\* The mutant of ElementHandler that fails on a tag without a parse method.
ElementHandlerStrict(p, tagName, open, attrs) ==
    IF tagName \notin ParseMethods THEN [p EXCEPT !.error = TRUE]
    ELSE LET r == ParseFunc(p, tagName, open, attrs)
         IN [r.p EXCEPT !.speechSequence = DedupAll(@, r.cmds)]

\* _elementHandler(tagName, attrs)
ElementHandler(p, tagName, open, attrs) ==
    IF tagName \notin ParseMethods THEN p
    ELSE LET r == ParseFunc(p, tagName, open, attrs)
         IN [r.p EXCEPT !.speechSequence = DedupAll(@, r.cmds)]

\* The character references of the markup and the characters they stand for.
Entities == {"&lt;", "&gt;", "&amp;", "&quot;"}
Unescape(c) ==
    CASE c = "&lt;" -> "<" [] c = "&gt;" -> ">" [] c = "&amp;" -> "&" [] c = "&quot;" -> "\""
      [] OTHER -> c

\* The pieces in which expat reports a run of character data: each character
\* reference on its own, the characters between two of them together.
RECURSIVE Chunks(_, _)
Chunks(txt, run) ==
    IF txt = <<>> THEN (IF run = <<>> THEN <<>> ELSE <<run>>)
    ELSE IF Head(txt) \in Entities
         THEN (IF run = <<>> THEN <<>> ELSE <<run>>)
              \o <<<<Unescape(Head(txt))>>>> \o Chunks(Tail(txt), <<>>)
         ELSE Chunks(Tail(txt), Append(run, Head(txt)))

\* parser.CharacterDataHandler = self._speechSequence.append, for each piece
RECURSIVE AppendChunks(_, _)
AppendChunks(seq, chunks) ==
    IF chunks = <<>> THEN seq
    ELSE AppendChunks(Append(seq, StrItem(Head(chunks))), Tail(chunks))

ExpatError(p) == [p EXCEPT !.error = TRUE]

\* expat on an opening tag: StartElementHandler, unless the tag follows text
\* before the root or the end of the root.
ExpatStartElement(p, tagName, attrs) ==
    IF p.pending \/ p.phase = "epilog" THEN ExpatError(p)
    ELSE ElementHandler([p EXCEPT !.stack = Append(@, tagName), !.phase = "content"],
                        tagName, TRUE, attrs)

\* expat on a closing tag: EndElementHandler when it closes the element opened
\* last, else a syntax error.
ExpatEndElement(p, tagName) ==
    IF p.pending \/ p.stack = <<>> THEN ExpatError(p)
    ELSE IF p.stack[Len(p.stack)] # tagName THEN ExpatError(p)
    ELSE LET p1 == ElementHandler(p, tagName, FALSE, <<>>)
             stack == SubSeq(p.stack, 1, Len(p.stack) - 1)
         IN [p1 EXCEPT !.stack = stack,
                       !.phase = IF stack = <<>> THEN "epilog" ELSE "content"]

\* expat on a run of character data: CharacterDataHandler inside the root; an
\* error after the root; before the root the characters wait for what follows
\* them, which is an error when it comes.
ExpatCharacterData(p, txt) ==
    CASE p.phase = "prolog" -> [p EXCEPT !.pending = TRUE]
      [] p.phase = "content" ->
           [p EXCEPT !.speechSequence = AppendChunks(@, Chunks(txt, <<>>))]
      [] p.phase = "epilog" -> ExpatError(p)

\* parser.Parse(xml) on one token.  Parse is called without isfinal: the end
\* of the input is not checked, so elements left open are no error.
ExpatFeed(p, t) ==
    IF p.error THEN p
    ELSE CASE t.k = "open" -> ExpatStartElement(p, t.tag, t.attrs)
           [] t.k = "close" -> ExpatEndElement(p, t.tag)
           [] t.k = "empty" ->
                LET p1 == ExpatStartElement(p, t.tag, t.attrs)
                IN IF p1.error THEN p1 ELSE ExpatEndElement(p1, t.tag)
           [] t.k = "text" -> ExpatCharacterData(p, t.txt)

RECURSIVE ExpatParse(_, _)
ExpatParse(p, toks) ==
    IF toks = <<>> THEN p ELSE ExpatParse(ExpatFeed(p, Head(toks)), Tail(toks))

\* The start of SsmlParser.convertFromXml and SpeechXmlParser.convertFromXml:
\* new _cachedProsodyAttrs, new _speechSequence, new expat parser.
BeginParse(p) ==
    [p EXCEPT !.cachedProsodyAttrs = <<>>, !.speechSequence = <<>>,
              !.stack = <<>>, !.phase = "prolog", !.pending = FALSE, !.error = FALSE]

\* What convertFromXml hands to its caller: the ValueError naming the markup,
\* or self._speechSequence.
ParseResult(p, markup) ==
    IF p.error
    THEN [error |-> TRUE, xml |-> markup, seq |-> <<>>]
    ELSE [error |-> FALSE, xml |-> <<>>, seq |-> p.speechSequence]

\* SsmlParser(markCallback).convertFromXml(xml)
ConvertFromXml(markCallback, markup) ==
    ParseResult(ExpatParse(BeginParse(NewParser(markCallback)), markup), markup)

----------------------------------------------------------------------------
(* convertToXml on any speech sequence *)

\* The inputs of the model.
SpeechTexts == {<<"a">>}
SpeechIndexes == {IndexCommand(1)}
SpeechCharacterModes == {CharacterModeCommand(1), CharacterModeCommand(0)}
SpeechLangChanges == {LangChangeCommand(VStr(<<"fr">>)), LangChangeCommand(VNone)}
SpeechBreaks == {BreakCommand(10)}
SpeechPitches == {PitchCommand(1206), PitchCommand(1000)}
SpeechRates == {RateCommand(1500)}
SpeechVolumes == {VolumeCommand(500)}
SpeechPhonemes == {PhonemeCommand(VStr(<<"x">>), <<"t">>)}
SpeechUnsupported == {BeepCommand}
\* What may follow an unsupported command in the sequence.
SpeechRests == {<<>>, <<StrItem(<<"a">>)>>, <<BreakCommand(10), StrItem(<<"a">>)>>}

InitConverter ==
    /\ pc = "start"
    /\ bal = NewBalancer
    /\ commands = <<>>
    /\ speechSequence = <<>>
    /\ xml = <<>>
    /\ parser = NoParser
    /\ result = <<>>

\* convertToXml: generateXml takes the first command of the generator.
ConvStart ==
    /\ pc = "start"
    /\ pc' = "run"
    /\ bal' = BalStep(bal, SpeakCommand)
    /\ UNCHANGED <<commands, speechSequence, xml, parser, result>>

\* The generator takes the next item of the speech sequence and generateXml
\* the commands it yields; one action for each kind of item.

\* a text fragment
ConvText ==
    \E x \in SpeechTexts, rest \in {<<>>} :
        LET item == StrItem(x)
            t == TranslateItem(item)
        IN /\ pc = "run"
           /\ Len(speechSequence) < MaxSpeech
           /\ bal' = BalRun(bal, t.cmds)
           /\ UNCHANGED commands
           /\ IF t.stop
              THEN /\ speechSequence' = (speechSequence \o <<item>>) \o rest
                   /\ pc' = "done"
                   /\ result' = BalFinish(bal)
              ELSE /\ speechSequence' = Append(speechSequence, item)
                   /\ UNCHANGED <<pc, result>>
           /\ UNCHANGED <<xml, parser>>

\* an IndexCommand
ConvIndexCommand ==
    \E x \in SpeechIndexes, rest \in {<<>>} :
        LET item == x
            t == TranslateItem(item)
        IN /\ pc = "run"
           /\ Len(speechSequence) < MaxSpeech
           /\ bal' = BalRun(bal, t.cmds)
           /\ UNCHANGED commands
           /\ IF t.stop
              THEN /\ speechSequence' = (speechSequence \o <<item>>) \o rest
                   /\ pc' = "done"
                   /\ result' = BalFinish(bal)
              ELSE /\ speechSequence' = Append(speechSequence, item)
                   /\ UNCHANGED <<pc, result>>
           /\ UNCHANGED <<xml, parser>>

\* a CharacterModeCommand
ConvCharacterModeCommand ==
    \E x \in SpeechCharacterModes, rest \in {<<>>} :
        LET item == x
            t == TranslateItem(item)
        IN /\ pc = "run"
           /\ Len(speechSequence) < MaxSpeech
           /\ bal' = BalRun(bal, t.cmds)
           /\ UNCHANGED commands
           /\ IF t.stop
              THEN /\ speechSequence' = (speechSequence \o <<item>>) \o rest
                   /\ pc' = "done"
                   /\ result' = BalFinish(bal)
              ELSE /\ speechSequence' = Append(speechSequence, item)
                   /\ UNCHANGED <<pc, result>>
           /\ UNCHANGED <<xml, parser>>

\* a LangChangeCommand
ConvLangChangeCommand ==
    \E x \in SpeechLangChanges, rest \in {<<>>} :
        LET item == x
            t == TranslateItem(item)
        IN /\ pc = "run"
           /\ Len(speechSequence) < MaxSpeech
           /\ bal' = BalRun(bal, t.cmds)
           /\ UNCHANGED commands
           /\ IF t.stop
              THEN /\ speechSequence' = (speechSequence \o <<item>>) \o rest
                   /\ pc' = "done"
                   /\ result' = BalFinish(bal)
              ELSE /\ speechSequence' = Append(speechSequence, item)
                   /\ UNCHANGED <<pc, result>>
           /\ UNCHANGED <<xml, parser>>

\* a BreakCommand
ConvBreakCommand ==
    \E x \in SpeechBreaks, rest \in {<<>>} :
        LET item == x
            t == TranslateItem(item)
        IN /\ pc = "run"
           /\ Len(speechSequence) < MaxSpeech
           /\ bal' = BalRun(bal, t.cmds)
           /\ UNCHANGED commands
           /\ IF t.stop
              THEN /\ speechSequence' = (speechSequence \o <<item>>) \o rest
                   /\ pc' = "done"
                   /\ result' = BalFinish(bal)
              ELSE /\ speechSequence' = Append(speechSequence, item)
                   /\ UNCHANGED <<pc, result>>
           /\ UNCHANGED <<xml, parser>>

\* a PitchCommand
ConvPitchCommand ==
    \E x \in SpeechPitches, rest \in {<<>>} :
        LET item == x
            t == TranslateItem(item)
        IN /\ pc = "run"
           /\ Len(speechSequence) < MaxSpeech
           /\ bal' = BalRun(bal, t.cmds)
           /\ UNCHANGED commands
           /\ IF t.stop
              THEN /\ speechSequence' = (speechSequence \o <<item>>) \o rest
                   /\ pc' = "done"
                   /\ result' = BalFinish(bal)
              ELSE /\ speechSequence' = Append(speechSequence, item)
                   /\ UNCHANGED <<pc, result>>
           /\ UNCHANGED <<xml, parser>>

\* a RateCommand
ConvRateCommand ==
    \E x \in SpeechRates, rest \in {<<>>} :
        LET item == x
            t == TranslateItem(item)
        IN /\ pc = "run"
           /\ Len(speechSequence) < MaxSpeech
           /\ bal' = BalRun(bal, t.cmds)
           /\ UNCHANGED commands
           /\ IF t.stop
              THEN /\ speechSequence' = (speechSequence \o <<item>>) \o rest
                   /\ pc' = "done"
                   /\ result' = BalFinish(bal)
              ELSE /\ speechSequence' = Append(speechSequence, item)
                   /\ UNCHANGED <<pc, result>>
           /\ UNCHANGED <<xml, parser>>

\* a VolumeCommand
ConvVolumeCommand ==
    \E x \in SpeechVolumes, rest \in {<<>>} :
        LET item == x
            t == TranslateItem(item)
        IN /\ pc = "run"
           /\ Len(speechSequence) < MaxSpeech
           /\ bal' = BalRun(bal, t.cmds)
           /\ UNCHANGED commands
           /\ IF t.stop
              THEN /\ speechSequence' = (speechSequence \o <<item>>) \o rest
                   /\ pc' = "done"
                   /\ result' = BalFinish(bal)
              ELSE /\ speechSequence' = Append(speechSequence, item)
                   /\ UNCHANGED <<pc, result>>
           /\ UNCHANGED <<xml, parser>>

\* a PhonemeCommand
ConvPhonemeCommand ==
    \E x \in SpeechPhonemes, rest \in {<<>>} :
        LET item == x
            t == TranslateItem(item)
        IN /\ pc = "run"
           /\ Len(speechSequence) < MaxSpeech
           /\ bal' = BalRun(bal, t.cmds)
           /\ UNCHANGED commands
           /\ IF t.stop
              THEN /\ speechSequence' = (speechSequence \o <<item>>) \o rest
                   /\ pc' = "done"
                   /\ result' = BalFinish(bal)
              ELSE /\ speechSequence' = Append(speechSequence, item)
                   /\ UNCHANGED <<pc, result>>
           /\ UNCHANGED <<xml, parser>>

\* an item that is neither text nor a SpeechCommand (logged, skipped)
ConvUnknownItem ==
    \E x \in {IntItem}, rest \in {<<>>} :
        LET item == x
            t == TranslateItem(item)
        IN /\ pc = "run"
           /\ Len(speechSequence) < MaxSpeech
           /\ bal' = BalRun(bal, t.cmds)
           /\ UNCHANGED commands
           /\ IF t.stop
              THEN /\ speechSequence' = (speechSequence \o <<item>>) \o rest
                   /\ pc' = "done"
                   /\ result' = BalFinish(bal)
              ELSE /\ speechSequence' = Append(speechSequence, item)
                   /\ UNCHANGED <<pc, result>>
           /\ UNCHANGED <<xml, parser>>

\* a SpeechCommand with no convert method: the generator returns, whatever follows
ConvUnsupportedCommand ==
    \E x \in SpeechUnsupported, rest \in SpeechRests :
        LET item == x
            t == TranslateItem(item)
        IN /\ pc = "run"
           /\ Len(speechSequence) < MaxSpeech
           /\ bal' = BalRun(bal, t.cmds)
           /\ UNCHANGED commands
           /\ IF t.stop
              THEN /\ speechSequence' = (speechSequence \o <<item>>) \o rest
                   /\ pc' = "done"
                   /\ result' = BalFinish(bal)
              ELSE /\ speechSequence' = Append(speechSequence, item)
                   /\ UNCHANGED <<pc, result>>
           /\ UNCHANGED <<xml, parser>>

\* The speech sequence is exhausted: generateXml closes the open tags and returns.
ConvReturn ==
    /\ pc = "run"
    /\ pc' = "done"
    /\ result' = BalFinish(bal)
    /\ UNCHANGED <<bal, commands, speechSequence, xml, parser>>

NextConverter ==
    \/ ConvStart
    \/ ConvText
    \/ ConvIndexCommand
    \/ ConvCharacterModeCommand
    \/ ConvLangChangeCommand
    \/ ConvBreakCommand
    \/ ConvPitchCommand
    \/ ConvRateCommand
    \/ ConvVolumeCommand
    \/ ConvPhonemeCommand
    \/ ConvUnknownItem
    \/ ConvUnsupportedCommand
    \/ ConvReturn

SpecConverter == InitConverter /\ [][NextConverter]_vars

----------------------------------------------------------------------------
(* convertFromXml on any document *)

\* The documents: each is written in one of these vocabularies, with the
\* closing tags of the elements the vocabulary opens.
VoiceTag(lang) == <<Attr("xml:lang", VStr(lang))>>
MarkTag(name) == <<Attr("name", VStr(<<name>>))>>

VoiceVocabulary ==
    {TokOpen("speak", <<>>),
     TokOpen("voice", VoiceTag(<<"fr">>)),
     TokOpen("voice", VoiceTag(<<"en", "-", "US">>)),
     TokEmpty("voice", VoiceTag(<<"fr">>)),
     TokText(<<"a">>)}

MarkVocabulary ==
    {TokOpen("speak", <<>>),
     TokEmpty("mark", MarkTag("a")),
     TokEmpty("mark", MarkTag("b")),
     TokEmpty("mark", <<>>),
     TokText(<<"x", "&amp;">>)}

BreakTag(time) == <<Attr("time", time)>>

BreakVocabulary ==
    {TokOpen("speak", <<>>),
     TokEmpty("break", BreakTag(VMs(10))),
     TokEmpty("break", BreakTag(VMs(20))),
     TokEmpty("break", BreakTag(VStr(<<"soon">>))),
     TokText(<<"a">>)}

ProsodyVocabulary ==
    {TokOpen("speak", <<>>),
     TokOpen("prosody", <<Attr("pitch", VPct(120))>>),
     TokOpen("prosody", <<Attr("rate", VPct(150)), Attr("pitch", VStr(<<"high">>)),
                          Attr("volume", VPct(50))>>),
     TokEmpty("break", BreakTag(VMs(10))),
     TokText(<<"h", "i">>)}

SayAsVocabulary ==
    {TokOpen("speak", <<>>),
     TokOpen("say-as", <<Attr("interpret-as", VStr(<<"characters">>))>>),
     TokOpen("say-as", <<Attr("interpret-as", VStr(<<"date">>))>>),
     TokText(<<"a">>)}

PhonemeVocabulary ==
    {TokOpen("speak", <<>>),
     TokOpen("phoneme", <<Attr("ph", VStr(<<"x">>))>>),
     TokEmpty("break", BreakTag(VMs(10))),
     TokText(<<"a">>)}

ClosingTags(vocabulary) ==
    {TokClose(t.tag) : t \in {u \in vocabulary : u.k = "open"}}

Vocabularies ==
    {v \cup ClosingTags(v) : v \in {VoiceVocabulary, MarkVocabulary, BreakVocabulary, ProsodyVocabulary,
                                      SayAsVocabulary, PhonemeVocabulary}}

DocumentTokens == UNION Vocabularies

\* The callback matters to the mark elements only: a parser that has one is
\* given the documents of the vocabulary that has them.
CallbackVocabularies == {MarkVocabulary \cup ClosingTags(MarkVocabulary)}

InVocabulary(toks) ==
    \E v \in Vocabularies :
        /\ parser.markCallback => v \in CallbackVocabularies
        /\ \A i \in 1..Len(toks) : toks[i] \in v

\* SsmlParser(markCallback), with or without a callback
InitParser ==
    /\ pc = "idle"
    /\ bal = NewBalancer
    /\ commands = <<>>
    /\ speechSequence = <<>>
    /\ xml = <<>>
    /\ parser \in {NewParser(markCallback) : markCallback \in BOOLEAN}
    /\ result = <<>>

\* convertFromXml is called: the state of the call is created.
ParseCall ==
    /\ pc = "idle"
    /\ parser' = BeginParse(parser)
    /\ pc' = "parsing"
    /\ UNCHANGED <<bal, commands, speechSequence, xml, result>>

\* convertFromXml is called again on the parser, after a call that returned
\* or raised: the document and the outcome are those of the new call.
ParseAgain ==
    /\ pc = "done"
    /\ parser.lambdas + MaxTokens <= MaxLambdas
    /\ parser' = BeginParse(parser)
    /\ pc' = "parsing"
    /\ xml' = <<>>
    /\ result' = <<>>
    /\ UNCHANGED <<bal, commands, speechSequence>>

\* expat reaches an opening tag
StartElement ==
    \E t \in {u \in DocumentTokens : u.k = "open"} :
        /\ pc = "parsing"
        /\ Len(xml) < MaxTokens
        /\ InVocabulary(Append(xml, t))
        /\ xml' = Append(xml, t)
        /\ parser' = ExpatFeed(parser, t)
        /\ IF parser'.error
           THEN pc' = "done" /\ result' = ParseResult(parser', xml')
           ELSE UNCHANGED <<pc, result>>
        /\ UNCHANGED <<bal, commands, speechSequence>>

\* expat reaches a closing tag
EndElement ==
    \E t \in {u \in DocumentTokens : u.k = "close"} :
        /\ pc = "parsing"
        /\ Len(xml) < MaxTokens
        /\ InVocabulary(Append(xml, t))
        /\ xml' = Append(xml, t)
        /\ parser' = ExpatFeed(parser, t)
        /\ IF parser'.error
           THEN pc' = "done" /\ result' = ParseResult(parser', xml')
           ELSE UNCHANGED <<pc, result>>
        /\ UNCHANGED <<bal, commands, speechSequence>>

\* expat reaches an empty-element tag
EmptyElement ==
    \E t \in {u \in DocumentTokens : u.k = "empty"} :
        /\ pc = "parsing"
        /\ Len(xml) < MaxTokens
        /\ InVocabulary(Append(xml, t))
        /\ xml' = Append(xml, t)
        /\ parser' = ExpatFeed(parser, t)
        /\ IF parser'.error
           THEN pc' = "done" /\ result' = ParseResult(parser', xml')
           ELSE UNCHANGED <<pc, result>>
        /\ UNCHANGED <<bal, commands, speechSequence>>

\* expat reaches character data (a run of it is one token)
CharacterData ==
    \E t \in {u \in DocumentTokens : u.k = "text"} :
        /\ pc = "parsing"
        /\ Len(xml) < MaxTokens
        /\ IF xml = <<>> THEN TRUE ELSE xml[Len(xml)].k # "text"
        /\ InVocabulary(Append(xml, t))
        /\ xml' = Append(xml, t)
        /\ parser' = ExpatFeed(parser, t)
        /\ IF parser'.error
           THEN pc' = "done" /\ result' = ParseResult(parser', xml')
           ELSE UNCHANGED <<pc, result>>
        /\ UNCHANGED <<bal, commands, speechSequence>>

\* parser.Parse(xml) returns at the end of the input: return self._speechSequence
ParseReturn ==
    /\ pc = "parsing"
    /\ pc' = "done"
    /\ result' = ParseResult(parser, xml)
    /\ UNCHANGED <<bal, commands, speechSequence, xml, parser>>

NextParser ==
    \/ ParseCall
    \/ ParseAgain
    \/ StartElement
    \/ EndElement
    \/ EmptyElement
    \/ CharacterData
    \/ ParseReturn

SpecParser == InitParser /\ [][NextParser]_vars

----------------------------------------------------------------------------
(* Properties of the markup *)

\* Reading the tokens left to right with the stack of open elements: every
\* closing tag closes the element opened last, and nothing is left open.
RECURSIVE NestedFrom(_, _)
NestedFrom(toks, stack) ==
    IF toks = <<>> THEN stack = <<>>
    ELSE LET t == Head(toks)
         IN CASE t.k = "open" -> NestedFrom(Tail(toks), Append(stack, t.tag))
              [] t.k = "close" ->
                   /\ stack # <<>>
                   /\ stack[Len(stack)] = t.tag
                   /\ NestedFrom(Tail(toks), SubSeq(stack, 1, Len(stack) - 1))
              [] OTHER -> NestedFrom(Tail(toks), stack)

Balanced(toks) == NestedFrom(toks, <<>>)

\* The opening tags of toks not yet closed, outermost first.
RECURSIVE OpenElements(_, _)
OpenElements(toks, stack) ==
    IF toks = <<>> THEN stack
    ELSE LET t == Head(toks)
         IN CASE t.k = "open" -> OpenElements(Tail(toks), Append(stack, t))
              [] t.k = "close" -> OpenElements(Tail(toks), SubSeq(stack, 1, Len(stack) - 1))
              [] OTHER -> OpenElements(Tail(toks), stack)

\* The text tokens of toks, and the tokens of the tags named, in order.
RECURSIVE SelectTokens(_, _)
SelectTokens(toks, tagNames) ==
    IF toks = <<>> THEN <<>>
    ELSE LET t == Head(toks)
             rest == SelectTokens(Tail(toks), tagNames)
         IN IF t.k = "text" \/ t.tag \in tagNames THEN <<t>> \o rest ELSE rest

\* The balancer state after the first n commands of cmds.
BalAfter(cmds, n) == BalRun(NewBalancer, SubSeq(cmds, 1, n))

----------------------------------------------------------------------------
(* C1 *)

\* C1: whatever sequence of text and balancer commands generateXml is given,
\* every tag opened in its output is closed exactly once, and the closing tags
\* come in the reverse order of the opening tags.
C1_OutputBalanced == pc = "done" => Balanced(result)

----------------------------------------------------------------------------
(* C4 *)

\* A SetAttr of the value in force, or a DelAttr of an attribute not in force.
NoOp(b, c) ==
    LET attrs == TagsGet(b.tags, c.tag)
    IN \/ c.cmd = "SetAttr" /\ AttrIndex(attrs, c.attr) # 0 /\ AttrGet(attrs, c.attr) = c.val
       \/ c.cmd = "DelAttr" /\ AttrIndex(attrs, c.attr) = 0

\* C4: a SetAttr of the value in force and a DelAttr of an attribute not in
\* force leave the dirty flag as it was, and the output of the whole sequence
\* is the output of the sequence without that command.
C4_NoOpSuppressed ==
    /\ (pc = "run" /\ commands # <<>>) =>
          LET before == BalAfter(commands, Len(commands) - 1)
          IN NoOp(before, commands[Len(commands)]) => bal.tagsChanged = before.tagsChanged
    /\ pc = "done" =>
          \A i \in 1..Len(commands) :
              NoOp(BalAfter(commands, i - 1), commands[i])
                  => result = GenerateXml(RemoveAt(commands, i))

\* A SetAttr of the value in force arrives after the tag was written, and text follows.
C4_Witness ==
    /\ pc = "done"
    /\ \E i \in 1..(Len(commands) - 1) :
          /\ commands[i].cmd = "SetAttr"
          /\ NoOp(BalAfter(commands, i - 1), commands[i])
          /\ ~BalAfter(commands, i - 1).tagsChanged
          /\ BalAfter(commands, i - 1).openTags # <<>>
          /\ commands[i + 1].cmd = "str"

----------------------------------------------------------------------------
(* C9 *)

\* What the commands put between the tags, in input order: the escaped text,
\* and each stand-alone tag with its escaped content.
RECURSIVE ExpectedContent(_)
ExpectedContent(cmds) ==
    IF cmds = <<>> THEN <<>>
    ELSE LET c == Head(cmds)
             rest == ExpectedContent(Tail(cmds))
         IN CASE c.cmd = "str" -> <<TokText(EscapeXml(c.content))>> \o rest
              [] c.cmd = "StandAloneTag" /\ c.content = <<>> ->
                   <<TokEmpty(c.tag, WrittenAttrs(c.attrs))>> \o rest
              [] c.cmd = "StandAloneTag" /\ c.content # <<>> ->
                   <<TokOpen(c.tag, WrittenAttrs(c.attrs)), TokText(EscapeXml(c.content)),
                     TokClose(c.tag)>> \o rest
              [] OTHER -> rest

StandAloneTagNames == {c.tag : c \in BalStandAloneTags}

\* C9: with all tags removed the output is the escaped text fragments and
\* stand-alone contents in input order, and with all but the stand-alone tags
\* removed each stand-alone tag stands where it stood in the input.
C9_OrderPreserved ==
    pc = "done" =>
        /\ Join(SelectTokens(result, {})) = Join(SelectTokens(ExpectedContent(commands), {}))
        /\ Join(SelectTokens(result, StandAloneTagNames)) = Join(ExpectedContent(commands))

\* Text that needs escaping, a stand-alone tag with content and another text,
\* under tags that a flush reopens.
C9_Witness ==
    /\ pc = "done"
    /\ \E i, j, k \in 1..Len(commands) :
          /\ i < j /\ j < k
          /\ commands[i].cmd = "str" /\ commands[i].content # EscapeXml(commands[i].content)
          /\ commands[j].cmd = "StandAloneTag" /\ commands[j].content # <<>>
          /\ commands[k].cmd = "str" /\ commands[k].content # commands[i].content

----------------------------------------------------------------------------
(* C2 *)

TokensOf(toks, k, tag) == {i \in 1..Len(toks) : toks[i].k = k /\ toks[i].tag = tag}

\* C2: in the markup convertToXml returns, the speak root is opened first and
\* closed last, once each, and every tag opened in between is closed, in the
\* reverse order of opening, before the root closes.
C2_SpeakEnclosesBalanced ==
    pc = "done" =>
        /\ Len(result) >= 2
        /\ result[1].k = "open" /\ result[1].tag = "speak"
        /\ result[Len(result)].k = "close" /\ result[Len(result)].tag = "speak"
        /\ TokensOf(result, "open", "speak") = {1}
        /\ TokensOf(result, "close", "speak") = {Len(result)}
        /\ TokensOf(result, "empty", "speak") = {}
        /\ Balanced(result)

\* A voice, a prosody and a say-as element were opened in one utterance.
C2_Witness ==
    /\ pc = "done"
    /\ TokensOf(result, "open", "voice") # {}
    /\ TokensOf(result, "open", "prosody") # {}
    /\ TokensOf(result, "open", "say-as") # {}

----------------------------------------------------------------------------
(* C5 *)

ProsodyAttr(type) ==
    CASE type = "PitchCommand" -> "pitch"
      [] type = "RateCommand" -> "rate"
      [] type = "VolumeCommand" -> "volume"

\* The positions of the commands of one class in a sequence.
PositionsOf(seq, type) == {i \in 1..Len(seq) : seq[i].type = type}

LastOf(seq, type) ==
    CHOOSE i \in PositionsOf(seq, type) : \A j \in PositionsOf(seq, type) : j <= i

\* The latest command of the class has a multiplier other than 1.0.
InForce(seq, type) ==
    PositionsOf(seq, type) # {} /\ seq[LastOf(seq, type)].num # 1000

\* The latest command of the class has multiplier 1.0, and an earlier one had another.
WasReset(seq, type) ==
    /\ PositionsOf(seq, type) # {}
    /\ seq[LastOf(seq, type)].num = 1000
    /\ \E i \in PositionsOf(seq, type) : seq[i].num # 1000

\* The items that make the balancer write text or a stand-alone tag.
EmittingTypes == {"str", "IndexCommand", "BreakCommand", "PhonemeCommand"}

\* C5: once a Pitch, Rate or Volume command with multiplier 1.0 has followed one
\* of the same kind with another multiplier, whatever text or stand-alone tag is
\* written next lies in no prosody element with that attribute, and in no
\* prosody element at all when no other prosody attribute is in force.
C5_ResetRemovesAttribute ==
    (pc = "run" /\ speechSequence # <<>>
        /\ speechSequence[Len(speechSequence)].type \in EmittingTypes) =>
        LET before == SubSeq(speechSequence, 1, Len(speechSequence) - 1)
            open == OpenElements(bal.out, <<>>)
        IN \A type \in ProsodyTypes :
              WasReset(before, type) =>
                  /\ \A i \in 1..Len(open) :
                        open[i].tag = "prosody" => AttrIndex(open[i].attrs, ProsodyAttr(type)) = 0
                  /\ (\A other \in ProsodyTypes : ~InForce(before, other)) =>
                        \A i \in 1..Len(open) : open[i].tag # "prosody"

\* A pitch was set and written around text, then reset, and text follows.
C5_Witness ==
    /\ pc = "run"
    /\ Len(speechSequence) >= 4
    /\ speechSequence[Len(speechSequence)].type = "str"
    /\ \E i, j, k \in 1..(Len(speechSequence) - 1) :
          /\ i < j /\ j < k
          /\ speechSequence[i].type = "PitchCommand" /\ speechSequence[i].num # 1000
          /\ speechSequence[j].type = "str"
          /\ speechSequence[k].type = "PitchCommand" /\ speechSequence[k].num = 1000

----------------------------------------------------------------------------
(* C8 *)

\* A SpeechCommand with no translation.
Untranslatable(item) == item.type \notin (ConvertMethods \cup {"str", "int"})

\* C8: with a command that has no translation at position i, convertToXml
\* returns the markup it returns for the items before position i, in which the
\* root and every tag open at that point are closed.
C8_StopsAtUnsupported ==
    pc = "done" =>
        \A i \in 1..Len(speechSequence) :
            (Untranslatable(speechSequence[i])
                /\ \A j \in 1..(i - 1) : ~Untranslatable(speechSequence[j]))
            => /\ result = ConvertToXml(SubSeq(speechSequence, 1, i - 1))
               /\ Balanced(result)

\* An unsupported command arrives while a tag is open, and text follows it.
C8_Witness ==
    /\ pc = "done"
    /\ \E i \in 1..Len(speechSequence) :
          /\ Untranslatable(speechSequence[i])
          /\ i < Len(speechSequence)
          /\ speechSequence[Len(speechSequence)].type = "str"
          /\ BalRun(NewBalancer,
                    GenerateBalancerCommands(SubSeq(speechSequence, 1, i - 1))).openTags # <<>>

----------------------------------------------------------------------------
(* C3 *)

\* The dedup rules of _elementHandler applied to a speech sequence: the text
\* stays, each command goes through Dedup.
RECURSIVE ApplyDedup(_, _)
ApplyDedup(seq, items) ==
    IF items = <<>> THEN seq
    ELSE ApplyDedup(IF Head(items).type = "str" THEN Append(seq, Head(items))
                    ELSE Dedup(seq, Head(items)),
                    Tail(items))

RoundTripTypes ==
    {"str", "IndexCommand", "CharacterModeCommand", "LangChangeCommand", "BreakCommand",
     "PitchCommand", "RateCommand", "VolumeCommand", "PhonemeCommand"}

\* C3: for a speech sequence of text and Index, CharacterMode, LangChange,
\* Break, Pitch, Rate, Volume and Phoneme commands only, the markup decodes
\* without error, encoding what it decodes to gives the same markup again, and
\* what it decodes to is the sequence after the dedup rules are applied to it.
C3_RoundTripStable ==
    (/\ pc = "done"
     /\ \A i \in 1..Len(speechSequence) : speechSequence[i].type \in RoundTripTypes)
    => \A markCallback \in BOOLEAN :
          LET decoded == ConvertFromXml(markCallback, result)
          IN /\ ~decoded.error
             /\ ConvertToXml(decoded.seq) = result
             /\ decoded.seq = ApplyDedup(<<>>, speechSequence)

\* A well-formed document: one root element, every element closed by the
\* closing tag of its name, no character data outside the root.
RECURSIVE WellFormedFrom(_, _, _)
WellFormedFrom(toks, stack, rootSeen) ==
    IF toks = <<>> THEN stack = <<>> /\ rootSeen
    ELSE LET t == Head(toks)
         IN CASE t.k = "open" ->
                   /\ stack # <<>> \/ ~rootSeen
                   /\ WellFormedFrom(Tail(toks), Append(stack, t.tag), TRUE)
              [] t.k = "empty" ->
                   /\ stack # <<>> \/ ~rootSeen
                   /\ WellFormedFrom(Tail(toks), stack, TRUE)
              [] t.k = "close" ->
                   /\ stack # <<>>
                   /\ stack[Len(stack)] = t.tag
                   /\ WellFormedFrom(Tail(toks), SubSeq(stack, 1, Len(stack) - 1), rootSeen)
              [] t.k = "text" ->
                   /\ stack # <<>>
                   /\ WellFormedFrom(Tail(toks), stack, rootSeen)

WellFormedDocument(toks) == WellFormedFrom(toks, <<>>, FALSE)

----------------------------------------------------------------------------
(* C6 *)

\* The positions of the tokens of toks that start an element tagName with the
\* attribute attr.
ElementsWith(toks, tagName, attr) ==
    {i \in 1..Len(toks) :
        /\ toks[i].k \in {"open", "empty"}
        /\ toks[i].tag = tagName
        /\ AttrIndex(toks[i].attrs, attr) # 0}

CountOfType(seq, type) == Cardinality({i \in 1..Len(seq) : seq[i].type = type})

SameLangVoices ==
    LET voices == ElementsWith(xml, "voice", "xml:lang")
    IN /\ Cardinality(voices) >= 2
       /\ \A i, j \in voices : xml[i].attrs = xml[j].attrs

\* C6: when a document whose voice elements are two or more and all have the
\* same xml:lang value is decoded, with or without text inside or between
\* them, the sequence returned has exactly one LangChangeCommand.
C6_OneLangChange ==
    (pc = "done" /\ ~result.error /\ SameLangVoices)
    => CountOfType(result.seq, "LangChangeCommand") = 1

\* Two voice elements of the same language with text between them, in a
\* well-formed document, were decoded.
C6_Witness ==
    /\ pc = "done"
    /\ ~result.error
    /\ WellFormedDocument(xml)
    /\ SameLangVoices
    /\ \E i, k \in ElementsWith(xml, "voice", "xml:lang") :
          \E j \in 1..Len(xml) : i < j /\ j < k /\ xml[j].k = "text"
    /\ CountOfType(result.seq, "LangChangeCommand") = 1

----------------------------------------------------------------------------
(* C7 *)

\* C7: when a document that is not empty has a syntax error, such as a tag
\* left open or a closing tag of another name, convertFromXml ends with the
\* error that names the document and returns no sequence.
C7_SyntaxErrorFails ==
    (pc = "done" /\ xml # <<>> /\ ~WellFormedDocument(xml))
    => (result.error /\ result.xml = xml /\ result.seq = <<>>)

----------------------------------------------------------------------------
(* C10 *)

\* The names of the mark elements of toks that have a name, in document order.
RECURSIVE MarkNames(_)
MarkNames(toks) ==
    IF toks = <<>> THEN <<>>
    ELSE LET t == Head(toks)
         IN IF t.k \in {"open", "empty"} /\ t.tag = "mark" /\ AttrIndex(t.attrs, "name") # 0
            THEN <<AttrGet(t.attrs, "name")>> \o MarkNames(Tail(toks))
            ELSE MarkNames(Tail(toks))

\* The names the CallbackCommands of seq call the callback with, in order.
RECURSIVE CallbackNames(_)
CallbackNames(seq) ==
    IF seq = <<>> THEN <<>>
    ELSE IF Head(seq).type = "CallbackCommand"
         THEN <<Head(seq).val>> \o CallbackNames(Tail(seq))
         ELSE CallbackNames(Tail(seq))

\* C10: when the parser has a mark callback and the document is well-formed,
\* the CallbackCommands of the sequence returned are, in order, one for each mark element of the document
\* that has a name, also when two mark elements are adjacent.
C10_CallbackPerMark ==
    (pc = "done" /\ ~result.error /\ WellFormedDocument(xml) /\ parser.markCallback)
    => CallbackNames(result.seq) = MarkNames(xml)

----------------------------------------------------------------------------
(* C11 *)

\* The text and the BreakCommands of a sequence, in order.
RECURSIVE TextAndBreaks(_)
TextAndBreaks(seq) ==
    IF seq = <<>> THEN <<>>
    ELSE IF Head(seq).type \in {"str", "BreakCommand"}
         THEN <<Head(seq)>> \o TextAndBreaks(Tail(seq))
         ELSE TextAndBreaks(Tail(seq))

\* What the character data and the break elements of toks whose time is
\* digits followed by "ms" stand for, in document order.
RECURSIVE ExpectedTextAndBreaks(_)
ExpectedTextAndBreaks(toks) ==
    IF toks = <<>> THEN <<>>
    ELSE LET t == Head(toks)
             rest == ExpectedTextAndBreaks(Tail(toks))
         IN IF t.k = "text" THEN AppendChunks(<<>>, Chunks(t.txt, <<>>)) \o rest
            ELSE IF /\ t.k \in {"open", "empty"}
                    /\ t.tag = "break"
                    /\ AttrIndex(t.attrs, "time") # 0
                    /\ AttrGet(t.attrs, "time").k = "ms"
                 THEN <<BreakCommand(AttrGet(t.attrs, "time").n)>> \o rest
                 ELSE rest

\* C11: the BreakCommands of the sequence decoded from a well-formed document
\* are, in order and at their places between the text, one for each break
\* element whose time is digits followed by "ms", also when two break
\* elements are adjacent or have the same time with text between them.
C11_BreakPerElement ==
    (pc = "done" /\ ~result.error /\ WellFormedDocument(xml))
    => TextAndBreaks(result.seq) = ExpectedTextAndBreaks(xml)

----------------------------------------------------------------------------
(* C12 *)

\* The commands of the attributes of a prosody element that are percentages:
\* number/100 (in thousandths, number * 10) on open, 1.0 on close.
RECURSIVE ExpectedProsody(_, _)
ExpectedProsody(attrs, open) ==
    IF attrs = <<>> THEN <<>>
    ELSE LET a == Head(attrs)
             type == CASE a.attr = "pitch" -> "PitchCommand"
                       [] a.attr = "rate" -> "RateCommand"
                       [] a.attr = "volume" -> "VolumeCommand"
                       [] OTHER -> ""
             rest == ExpectedProsody(Tail(attrs), open)
         IN IF a.val.k = "pct" /\ type # ""
            THEN <<Item(type, IF open THEN a.val.n * 10 ELSE 1000, VNone, <<>>)>> \o rest
            ELSE rest

\* What the prosody elements, the break elements and the character data of
\* toks stand for, each closing tag of prosody matched with the opening tag
\* opened last (stack holds the attributes of the prosody elements open).
RECURSIVE ExpectedProsodyItems(_, _)
ExpectedProsodyItems(toks, stack) ==
    IF toks = <<>> THEN <<>>
    ELSE LET t == Head(toks)
         IN CASE t.k = "text" ->
                   AppendChunks(<<>>, Chunks(t.txt, <<>>))
                       \o ExpectedProsodyItems(Tail(toks), stack)
              [] t.k = "open" /\ t.tag = "prosody" ->
                   ExpectedProsody(t.attrs, TRUE)
                       \o ExpectedProsodyItems(Tail(toks), Append(stack, t.attrs))
              [] t.k = "close" /\ t.tag = "prosody" ->
                   ExpectedProsody(stack[Len(stack)], FALSE)
                       \o ExpectedProsodyItems(Tail(toks), SubSeq(stack, 1, Len(stack) - 1))
              [] t.k = "empty" /\ t.tag = "break" ->
                   ExpectedTextAndBreaks(<<t>>) \o ExpectedProsodyItems(Tail(toks), stack)
              [] OTHER -> ExpectedProsodyItems(Tail(toks), stack)

ProsodyDocument(toks) ==
    /\ toks # <<>>
    /\ toks[1].k = "open"
    /\ \A i \in 1..Len(toks) :
          \/ toks[i].k = "text"
          \/ toks[i].tag \in {"speak", "prosody"}
          \/ toks[i].tag = "break" /\ toks[i].k = "empty"

ExampleDocument ==
    <<TokOpen("speak", <<>>),
      TokOpen("prosody", <<Attr("pitch", VPct(120))>>),
      TokText(<<"h", "i">>),
      TokEmpty("break", BreakTag(VMs(10))),
      TokClose("prosody"),
      TokClose("speak")>>

\* C12: while a document of speak, prosody and break elements and text is
\* decoded without error, the sequence is what the dedup rules leave of: for
\* each opening prosody tag one Pitch, Rate or Volume command of multiplier
\* number/100 for each attribute that is a percentage, and for each closing
\* prosody tag one command of the same class with multiplier 1.0 for each such
\* attribute of the opening tag opened last.
C12_ProsodyDecoded ==
    (pc \in {"parsing", "done"} /\ ~parser.error /\ ProsodyDocument(xml))
    => parser.speechSequence = ApplyDedup(<<>>, ExpectedProsodyItems(xml, <<>>))

\* The document of the example was decoded to the sequence of the example.
C12_Witness ==
    /\ pc = "done"
    /\ xml = ExampleDocument
    /\ result = [error |-> FALSE, xml |-> <<>>,
                 seq |-> <<PitchCommand(1200), StrItem(<<"h", "i">>),
                           BreakCommand(10), PitchCommand(1000)>>]

----------------------------------------------------------------------------
(* C13 *)

\* The tags of the EncloseAllCommands of cmds, in order.
RECURSIVE EncloseAllTags(_)
EncloseAllTags(cmds) ==
    IF cmds = <<>> THEN <<>>
    ELSE IF Head(cmds).cmd = "EncloseAll"
         THEN <<Head(cmds).tag>> \o EncloseAllTags(Tail(cmds))
         ELSE EncloseAllTags(Tail(cmds))

\* C13: when generateXml was given more than one EncloseAllCommand, its
\* output ends with the closing tags of the EncloseAll tags, after every
\* other closing tag, in the reverse of the order in which they were opened:
\* the tag opened first is closed last.
C13_EncloseAllClosedInReverse ==
    LET tagList == EncloseAllTags(commands)
        n == Len(tagList)
    IN (pc = "done" /\ n > 1)
       => /\ Len(result) >= n
          /\ \A i \in 1..n : result[Len(result) - n + i] = TokClose(tagList[n + 1 - i])

----------------------------------------------------------------------------
(* C14 *)

\* C14: right after a StandAloneTagCommand, the output ends with the opening
\* tag, the escaped content and the closing tag of the command and nothing in
\* between when the command has content, and with its one empty-element tag
\* when it has none, whether or not a tag encloses the text.
C14_StandAloneTagEmitted ==
    (commands # <<>> /\ commands[Len(commands)].cmd = "StandAloneTag")
    => LET c == commands[Len(commands)]
           out == bal.out
           n == Len(out)
       IN IF c.content # <<>>
          THEN /\ n >= 3
               /\ out[n - 2] = TokOpen(c.tag, WrittenAttrs(c.attrs))
               /\ out[n - 1] = TokText(EscapeXml(c.content))
               /\ out[n] = TokClose(c.tag)
          ELSE /\ n >= 1
               /\ out[n] = TokEmpty(c.tag, WrittenAttrs(c.attrs))

----------------------------------------------------------------------------
(* C15 *)

\* The EncloseTextCommand in force after cmds, if any (a sequence of at most
\* one command).
RECURSIVE EnclosingAfter(_)
EnclosingAfter(cmds) ==
    IF cmds = <<>> THEN <<>>
    ELSE LET c == cmds[Len(cmds)]
         IN CASE c.cmd = "EncloseText" -> <<c>>
              [] c.cmd = "StopEnclosingText" -> <<>>
              [] OTHER -> EnclosingAfter(SubSeq(cmds, 1, Len(cmds) - 1))

\* Every tag of tagList is open at the end of toks: it was opened more often
\* than it was closed.
AllOpen(toks, tagList) ==
    \A j \in 1..Len(tagList) :
        Cardinality({i \in 1..Len(toks) : toks[i].k = "open" /\ toks[i].tag = tagList[j]})
            > Cardinality({i \in 1..Len(toks) : toks[i].k = "close" /\ toks[i].tag = tagList[j]})

\* Right after a text command: the text written, wrapped or not.
TextEnclosedAsInForce ==
    (commands # <<>> /\ commands[Len(commands)].cmd = "str")
    => LET enclosing == EnclosingAfter(commands)
           out == bal.out
           n == Len(out)
           text == TokText(EscapeXml(commands[Len(commands)].content))
       IN IF enclosing # <<>>
          THEN /\ n >= 3
               /\ out[n - 2] = TokOpen(enclosing[1].tag, WrittenAttrs(enclosing[1].attrs))
               /\ out[n - 1] = text
               /\ out[n] = TokClose(enclosing[1].tag)
               /\ AllOpen(SubSeq(out, 1, n - 3), bal.openTags)
          ELSE /\ n >= 1
               /\ out[n] = text
               /\ AllOpen(SubSeq(out, 1, n - 1), bal.openTags)

\* A step of an EncloseTextCommand or a StopEnclosingTextCommand.
EncloseTextStep ==
    /\ commands' # commands
    /\ commands'[Len(commands')].cmd \in {"EncloseText", "StopEnclosingText"}

\* C15: a step of EncloseText or StopEnclosingText writes nothing and leaves
\* the open tags, the tags map and the dirty flag as they are; each text
\* written while an EncloseText is in force is wrapped by its own opening and
\* closing tag of the enclosing tag, inside all the open tags, and a text
\* written after StopEnclosingText is not wrapped.
C15_EncloseTextFrame ==
    /\ []TextEnclosedAsInForce
    /\ [][EncloseTextStep =>
            /\ bal'.out = bal.out
            /\ bal'.openTags = bal.openTags
            /\ bal'.tags = bal.tags
            /\ bal'.tagsChanged = bal.tagsChanged]_vars

\* A text was written wrapped, inside a tag that a flush had opened.
C15_Witness ==
    /\ commands # <<>>
    /\ commands[Len(commands)].cmd = "str"
    /\ EnclosingAfter(commands) # <<>>
    /\ bal.openTags # <<>>
    /\ bal.out[Len(bal.out)] = TokClose(EnclosingAfter(commands)[1].tag)

----------------------------------------------------------------------------
(* C16 *)

\* The tags of the tags map, in insertion order.
TagNames(tags) == [i \in 1..Len(tags) |-> tags[i].tag]

\* The attributes of the opening tag of tagName written last in toks.
LastOpened(toks, tagName) ==
    LET opened == {i \in 1..Len(toks) : toks[i].k = "open" /\ toks[i].tag = tagName}
    IN toks[CHOOSE i \in opened : \A j \in opened : j <= i].attrs

\* C16: right after a text or a stand-alone tag is written, the stack of
\* open tags is the tags of the tags map in insertion order, and the opening
\* tag written last for each of them has exactly the attributes the map holds
\* for it.
C16_FlushInvariant ==
    (commands # <<>> /\ commands[Len(commands)].cmd \in {"str", "StandAloneTag"})
    => /\ bal.openTags = TagNames(bal.tags)
       /\ \A i \in 1..Len(bal.tags) :
             /\ AllOpen(bal.out, <<bal.tags[i].tag>>)
             /\ LastOpened(bal.out, bal.tags[i].tag) = WrittenAttrs(bal.tags[i].attrs)

----------------------------------------------------------------------------
(* C17 *)

\* What the element handlers yield and the character data handler is given
\* for the tokens toks, in order, before any dedup (stack holds the attributes
\* of the prosody elements open).
RECURSIVE Produced(_, _)
Produced(toks, stack) ==
    IF toks = <<>> THEN <<>>
    ELSE LET t == Head(toks)
             opened == CASE t.tag = "say-as" -> ParseSayAs(TRUE, t.attrs)
                         [] t.tag = "voice" -> ParseVoice(TRUE, t.attrs)
                         [] t.tag = "break" -> ParseBreak(TRUE, t.attrs)
                         [] t.tag = "prosody" -> ExpectedProsody(t.attrs, TRUE)
                         [] OTHER -> <<>>
             closed == CASE t.tag = "say-as" -> ParseSayAs(FALSE, <<>>)
                         [] t.tag = "prosody" /\ t.k = "empty" -> ExpectedProsody(t.attrs, FALSE)
                         [] t.tag = "prosody" -> ExpectedProsody(stack[Len(stack)], FALSE)
                         [] OTHER -> <<>>
         IN CASE t.k = "text" ->
                   AppendChunks(<<>>, Chunks(t.txt, <<>>)) \o Produced(Tail(toks), stack)
              [] t.k = "open" ->
                   opened \o Produced(Tail(toks),
                                      IF t.tag = "prosody" THEN Append(stack, t.attrs) ELSE stack)
              [] t.k = "empty" -> (opened \o closed) \o Produced(Tail(toks), stack)
              [] t.k = "close" ->
                   closed \o Produced(Tail(toks),
                                      IF t.tag = "prosody"
                                      THEN SubSeq(stack, 1, Len(stack) - 1) ELSE stack)

StateSettingTypes ==
    {"CharacterModeCommand", "LangChangeCommand", "PitchCommand", "RateCommand",
     "VolumeCommand"}

\* The positions of the text of seq, in order.
RECURSIVE TextPositionsFrom(_, _)
TextPositionsFrom(seq, i) ==
    IF i > Len(seq) THEN <<>>
    ELSE IF seq[i].type = "str" THEN <<i>> \o TextPositionsFrom(seq, i + 1)
         ELSE TextPositionsFrom(seq, i + 1)

TextPositions(seq) == TextPositionsFrom(seq, 1)

\* The command of class type in force at position i of seq: the latest one
\* before i, as a sequence of at most one command.
InForceAt(seq, i, type) ==
    LET before == {j \in 1..(i - 1) : seq[j].type = type}
    IN IF before = {} THEN <<>>
       ELSE <<seq[CHOOSE j \in before : \A k \in before : k <= j]>>

\* A document that is decoded without error so far, from its root on.
DecodedSoFar ==
    /\ pc \in {"parsing", "done"}
    /\ ~parser.error
    /\ xml # <<>>
    /\ xml[1].k # "text"

\* C17: for each text of the decoded sequence and each of CharacterMode,
\* LangChange, Pitch, Rate and Volume, the command of the class in force at
\* the text in the sequence is equal to the one in force at the same text in
\* what the handlers produced, and there is none only if none was produced.
C17_DedupKeepsState ==
    DecodedSoFar
    => LET seq == parser.speechSequence
           produced == Produced(xml, <<>>)
           texts == TextPositions(seq)
           producedTexts == TextPositions(produced)
       IN /\ Len(texts) = Len(producedTexts)
          /\ \A n \in 1..Len(texts) : \A type \in StateSettingTypes :
                LET kept == InForceAt(seq, texts[n], type)
                    made == InForceAt(produced, producedTexts[n], type)
                IN /\ (kept = <<>>) = (made = <<>>)
                   /\ kept # <<>> => CommandEq(kept[1], made[1])

\* A text was decoded after the dedup had removed or left out a command that
\* the handlers produced before it.
C17_Witness ==
    /\ DecodedSoFar
    /\ LET seq == parser.speechSequence
           produced == Produced(xml, <<>>)
           texts == TextPositions(seq)
           producedTexts == TextPositions(produced)
       IN /\ texts # <<>>
          /\ Len(texts) = Len(producedTexts)
          /\ producedTexts[Len(texts)] > texts[Len(texts)]
          /\ \E type \in StateSettingTypes : InForceAt(seq, texts[Len(texts)], type) # <<>>

----------------------------------------------------------------------------
(* C18 *)

\* round(multiplier * 100) for a multiplier in thousandths that is not
\* halfway between two percentages.
RoundPercent(multiplier) == (multiplier + 5) \div 10

ProsodyAttrName(type) ==
    CASE type = "PitchCommand" -> "pitch"
      [] type = "RateCommand" -> "rate"
      [] type = "VolumeCommand" -> "volume"

\* C18: each Pitch, Rate or Volume command of the speech sequence whose
\* multiplier is not 1.0 is translated to the SetAttrCommand of prosody whose
\* value is the percentage rounded to the nearest integer, followed by "%".
C18_PercentRounded ==
    \A i \in 1..Len(speechSequence) :
        LET item == speechSequence[i]
        IN (/\ item.type \in {"PitchCommand", "RateCommand", "VolumeCommand"}
            /\ item.num # 1000
            /\ item.num % 10 # 5)
           => TranslateItem(item).cmds
                = <<SetAttrCommand("prosody", ProsodyAttrName(item.type),
                                   VPct(RoundPercent(item.num)))>>

----------------------------------------------------------------------------
(* C19 *)

\* toks without the tags of the elements that have no parse method.
RECURSIVE WithoutUnhandled(_)
WithoutUnhandled(toks) ==
    IF toks = <<>> THEN <<>>
    ELSE IF Head(toks).k # "text" /\ Head(toks).tag \notin ParseMethods
         THEN WithoutUnhandled(Tail(toks))
         ELSE <<Head(toks)>> \o WithoutUnhandled(Tail(toks))

\* seq with each run of adjacent text made one text.
RECURSIVE MergeText(_)
MergeText(seq) ==
    IF Len(seq) < 2 THEN seq
    ELSE IF seq[1].type = "str" /\ seq[2].type = "str"
         THEN MergeText(<<StrItem(seq[1].txt \o seq[2].txt)>> \o SubSeq(seq, 3, Len(seq)))
         ELSE <<seq[1]>> \o MergeText(Tail(seq))

HasUnhandledElement(toks) ==
    /\ toks # <<>>
    /\ toks[1].tag \in ParseMethods
    /\ \E i \in 1..Len(toks) : toks[i].k # "text" /\ toks[i].tag \notin ParseMethods

\* toks is the start of a well-formed document.
RECURSIVE WellFormedStart(_, _, _)
WellFormedStart(toks, stack, rootSeen) ==
    IF toks = <<>> THEN TRUE
    ELSE LET t == Head(toks)
         IN CASE t.k = "open" ->
                   /\ stack # <<>> \/ ~rootSeen
                   /\ WellFormedStart(Tail(toks), Append(stack, t.tag), TRUE)
              [] t.k = "empty" ->
                   /\ stack # <<>> \/ ~rootSeen
                   /\ WellFormedStart(Tail(toks), stack, TRUE)
              [] t.k = "close" ->
                   /\ stack # <<>>
                   /\ stack[Len(stack)] = t.tag
                   /\ WellFormedStart(Tail(toks), SubSeq(stack, 1, Len(stack) - 1), rootSeen)
              [] t.k = "text" ->
                   /\ stack # <<>>
                   /\ WellFormedStart(Tail(toks), stack, rootSeen)

\* C19: when a document has, inside its root, elements without a parse
\* method, then as far as it is well-formed it is decoded without error to
\* what the document without the tags of these elements is decoded to,
\* adjacent text taken together: the tags yield no command, their character
\* data is text of the sequence, and what follows them is decoded as without
\* them.
C19_UnhandledElementIgnored ==
    (/\ pc \in {"parsing", "done"}
     /\ WellFormedStart(xml, <<>>, FALSE)
     /\ HasUnhandledElement(xml))
    => /\ ~parser.error
       /\ MergeText(parser.speechSequence)
            = MergeText(ExpatParse(BeginParse(NewParser(parser.markCallback)),
                                   WithoutUnhandled(xml)).speechSequence)

\* A phoneme element with character data, followed by a break element, was
\* decoded.
C19_Witness ==
    /\ pc = "done"
    /\ WellFormedDocument(xml)
    /\ HasUnhandledElement(xml)
    /\ \E i \in 1..Len(xml) :
          /\ i + 3 <= Len(xml)
          /\ xml[i].k = "open" /\ xml[i].tag = "phoneme"
          /\ xml[i + 1].k = "text"
          /\ xml[i + 2].k = "close"
          /\ xml[i + 3].tag = "break"
    /\ \E j \in 1..Len(result.seq) :
          /\ j < Len(result.seq)
          /\ result.seq[j].type = "str"
          /\ result.seq[j + 1].type = "BreakCommand"

----------------------------------------------------------------------------
(* C20 *)

\* C20: after every event of the parser, no two adjacent items of the
\* sequence are commands of the same class, and no command of the sequence is
\* equal to the nearest command of its class before it.
C20_SequenceInvariant ==
    LET seq == parser.speechSequence
    IN /\ \A i \in 1..(Len(seq) - 1) :
             seq[i].type # "str" => seq[i + 1].type # seq[i].type
       /\ \A i \in 1..Len(seq) :
             seq[i].type # "str"
             => LET nearest == InForceAt(seq, i, seq[i].type)
                IN nearest # <<>> => ~CommandEq(nearest[1], seq[i])

\* The element handler has removed a command, and the sequence holds two
\* commands of one class with text between them.
C20_Witness ==
    LET seq == parser.speechSequence
    IN /\ pc = "parsing"
       /\ Len(Produced(xml, <<>>)) > Len(seq)
       /\ \E i, j \in 1..Len(seq) :
             /\ i + 1 < j
             /\ seq[i].type # "str"
             /\ seq[j].type = seq[i].type
             /\ seq[i + 1].type = "str"

----------------------------------------------------------------------------
(* C21 *)

\* seq without the identity of the callbacks of its CallbackCommands: two
\* decodings of a document never hold the same lambda objects.
Anonymous(seq) ==
    [i \in 1..Len(seq) |->
        IF seq[i].type = "CallbackCommand" THEN [seq[i] EXCEPT !.num = 0] ELSE seq[i]]

\* What a new parser gives for the document of the call.
FreshResult == ConvertFromXml(parser.markCallback, xml)

\* A call ends as the call of a new parser on the same document ends.
SameAsFreshParser ==
    pc = "done"
    => /\ result.error = FreshResult.error
       /\ result.xml = FreshResult.xml
       /\ Anonymous(result.seq) = Anonymous(FreshResult.seq)

\* A call that returns a sequence leaves no prosody attributes behind.
ProsodyStackEmptyAtReturn ==
    (pc = "done" /\ ~result.error) => parser.cachedProsodyAttrs = <<>>

\* C21: every call of convertFromXml on a parser, whatever the parser has
\* decoded before and however that ended, ends as on a new parser; the stack
\* of prosody attributes is empty when a call starts, and when a call returns
\* a sequence.
C21_NoStateBetweenCalls ==
    /\ []SameAsFreshParser
    /\ []ProsodyStackEmptyAtReturn
    /\ [][(pc # "parsing" /\ pc' = "parsing") => parser'.cachedProsodyAttrs = <<>>]_vars

----------------------------------------------------------------------------
(* C22 *)

\* The tags the SetAttrCommands of cmds name.
SetAttrTags(cmds) == {cmds[i].tag : i \in {j \in 1..Len(cmds) : cmds[j].cmd = "SetAttr"}}

\* C22: after any SetAttrCommands and DelAttrCommands, also with the value
\* None, every tag of the tags map has at least one attribute, and no opening
\* tag written for a tag of the map is without attributes.
C22_NoTagWithoutAttributes ==
    /\ \A i \in 1..Len(bal.tags) : bal.tags[i].attrs # <<>>
    /\ \A i \in 1..Len(bal.out) :
          (bal.out[i].k = "open" /\ bal.out[i].tag \in SetAttrTags(commands))
          => bal.out[i].attrs # <<>>

====
